---- MODULE Spec2Model ----
(***************************************************************************)
(* Model of main1.py: the Drive shared-files checker and permission        *)
(* revoker.  One run of main(): the root listing, the recursive traversal, *)
(* the audit of every file and the export of the report, with every remote *)
(* call going through the exponential_backoff wrapper.                     *)
(***************************************************************************)
EXTENDS Integers, Sequences, FiniteSets, TLC

(* ---------------------------- bounds ----------------------------------- *)
\* number of folder ids and of file ids the remote store holds
NumFolders == 2
NumFiles == 3
\* most items one listing (all its pages together) returns
MaxList == 2
\* most pages one listing is split into
MaxPages == 2
\* largest --limit tried (0 is "no limit")
MaxLimit == 2
\* the frames of process_items_recursively the interpreter's stack holds
\* before it raises RecursionError: scaled to the store, one frame for the
\* roots and one for each folder
RecursionLimit == NumFolders + 1

(* ------------------------ program constants ---------------------------- *)
BASE_DELAY == 1
MAX_DELAY == 32
MAX_RETRIES == 5

\* the names bound at module level by the import statements
ModuleGlobals ==
    {"os", "logging", "argparse", "datetime", "service_account", "build",
     "HttpError", "Workbook"}

\* the statuses the remote service answers a failed call with
HttpStatuses == {429, 500, 503, 404}

NoError == [type |-> "none", status |-> 0]
HttpError(s) == [type |-> "HttpError", status |-> s]
NameError == [type |-> "NameError", status |-> 0]
RecursionError == [type |-> "RecursionError", status |-> 0]

(* ----------------------------- items ----------------------------------- *)
Folders == 1..NumFolders
Files == (NumFolders + 1)..(NumFolders + NumFiles)
Ids == Folders \cup Files

FOLDER_MIME == "application/vnd.google-apps.folder"
mimeType(id) == IF id \in Folders THEN FOLDER_MIME ELSE "application/pdf"

Min(a, b) == IF a <= b THEN a ELSE b

RECURSIVE Pow2(_)
Pow2(n) == IF n = 0 THEN 1 ELSE 2 * Pow2(n - 1)

(* ------------------------- email strings ------------------------------- *)
\* a string is the sequence of its characters
UpperChars == <<"A","B","C","D","E","F","G","H","I","J","K","L","M",
                "N","O","P","Q","R","S","T","U","V","W","X","Y","Z">>
LowerChars == <<"a","b","c","d","e","f","g","h","i","j","k","l","m",
                "n","o","p","q","r","s","t","u","v","w","x","y","z">>

LowerChar(c) ==
    IF \E i \in 1..26 : UpperChars[i] = c
    THEN LowerChars[CHOOSE i \in 1..26 : UpperChars[i] = c]
    ELSE c

lower(s) == [i \in 1..Len(s) |-> LowerChar(s[i])]

endswith(s, suffix) ==
    /\ Len(suffix) <= Len(s)
    /\ SubSeq(s, Len(s) - Len(suffix) + 1, Len(s)) = suffix

SUFFIX_DOMAIN == <<"@","d","o","m","a","i","n",".","c","o","m">>
SUFFIX_EXT_DOMAIN == <<"@","e","x","t",".","d","o","m","a","i","n",".","c","o","m">>

\* variant: the email is not lowercased
is_allbirds_email_as_typed(email) ==
    \/ endswith(email, SUFFIX_DOMAIN)
    \/ endswith(email, SUFFIX_EXT_DOMAIN)

is_allbirds_email(email) ==
    \/ endswith(lower(email), SUFFIX_DOMAIN)
    \/ endswith(lower(email), SUFFIX_EXT_DOMAIN)

(* --------------------------- permissions ------------------------------- *)
\* emailAddress <<>> stands for a permission without the key: .get(..., '')
Perm(id, type, email) == [id |-> id, type |-> type, emailAddress |-> email]

EMAIL_A == <<"a","@","x",".","i","o">>
EMAIL_B == <<"b","@","d","o","m","a","i","n",".","c","o","m">>
EMAIL_C == <<"C","@","E","x","t",".","D","O","M","A","I","N",".","c","o","m">>
EMAIL_D == <<"d","@","d","o","m","a","i","n",".","c","o","m",".","i","o">>
EMAIL_G == <<"g","@","x",".","i","o">>

\* the permission lists the listing snapshots carry, by file
PermissionLists ==
    << << Perm(1, "user", EMAIL_A), Perm(2, "user", EMAIL_B),
          Perm(3, "group", EMAIL_G) >>,
       << Perm(1, "anyone", <<>>), Perm(2, "user", EMAIL_C),
          Perm(3, "user", EMAIL_D), Perm(4, "user", <<>>) >>,
       << >> >>

permissions(file) == PermissionLists[((file - NumFolders - 1) % 3) + 1]

(* ------------------------- the retry wrapper --------------------------- *)
\* variant: every status is retried
IsTransient_every_status(status) == status \in HttpStatuses

\* `error.resp.status in [429, 500, 503]`
IsTransient(status) == status \in {429, 500, 503}

\* sleep_time = min(delay * (2 ** attempt), MAX_DELAY), delay = BASE_DELAY
sleep_time(attempt) == Min(BASE_DELAY * Pow2(attempt), MAX_DELAY)

\* evaluating the name `time` in wrapper: bound only if the module imports it
NameIsBound(name) == name \in ModuleGlobals

\* the except clause of wrapper, for the HttpError of attempt number `n`:
\* what the clause does (raise / retry) and, for a retry, the time slept
exponential_backoff_except(n, status) ==
    IF IsTransient(status)
    THEN IF n = MAX_RETRIES - 1
         THEN [do |-> "raise", error |-> HttpError(status), slept |-> <<>>]
         ELSE IF NameIsBound("time")
              THEN [do |-> "retry", error |-> NoError,
                    slept |-> <<sleep_time(n)>>]
              ELSE [do |-> "raise", error |-> NameError, slept |-> <<>>]
    ELSE [do |-> "raise", error |-> HttpError(status), slept |-> <<>>]

(* ----------------------- the traversal helpers ------------------------- *)
\* variant: a limit of 0 is a limit
LimitReached_zero_counts(xs, lim) == Len(xs) >= lim

\* variant: the limit has to be exceeded
LimitReached_exceeded(xs, lim) == lim # 0 /\ Len(xs) > lim

\* `if limit and len(xs) >= limit`
LimitReached(xs, lim) ==
    lim # 0 /\ Len(xs) >= lim

\* variant: the return statements return all_files whole
Truncate_nothing(xs, lim) == xs

\* xs[:lim]
Truncate(xs, lim) == SubSeq(xs, 1, Min(lim, Len(xs)))

\* variant: the membership test is missing
AlreadyProcessed_never(id, ids) == FALSE

\* `item['id'] in processed_ids`
AlreadyProcessed(id, ids) == id \in ids

\* variant: the id is not added
MarkProcessed_forgets(ids, id) == ids

\* processed_ids.add(item['id'])
MarkProcessed(ids, id) == ids \cup {id}

Frame(items) == [items |-> items, i |-> 1, all_files |-> <<>>, ret |-> FALSE]

\* a frame whose loop has ended or that has executed a return statement
Finished(fr) == fr.ret \/ fr.i > Len(fr.items)

\* after an item of the loop body was handled: the limit check of the frame
AfterItem(fr, files, lim) ==
    IF LimitReached(files, lim)
    THEN [fr EXCEPT !.all_files = Truncate(files, lim), !.ret = TRUE]
    ELSE [fr EXCEPT !.all_files = files, !.i = @ + 1]

\* the sequences without repetition over S, of length 0..n
DistinctSeqs(S, n) ==
    UNION {{s \in [1..k -> S] : \A a, b \in 1..k : a # b => s[a] # s[b]} :
           k \in 0..n}

Range(s) == {s[k] : k \in 1..Len(s)}

\* the pages the service may answer with, given the items already served
PageChoices(items) == DistinctSeqs(Ids \ Range(items), MaxList - Len(items))

\* the answer to a list request: results.get('files') and
\* results.get('nextPageToken')
Results(items, token) == [files |-> items, nextPageToken |-> token]

\* variant: the accumulator is assigned, not extended
extend_overwrites(xs, ys) == ys

\* all_items.extend(items), all_files.extend(...)
extend(xs, ys) == xs \o ys

\* whether the service may send a nextPageToken with page `items` of request
\* number `n`: it has more to list, and the page before a further one is
\* not empty
MayContinue(n, items, acc) == n < MaxPages /\ items # <<>> /\ Len(acc) < MaxList

(* ------------------------ the permission audit ------------------------- *)
\* permission.get('emailAddress', '')
emailAddress(permission) == permission.emailAddress

\* variant: the type of the permission is not looked at
IsExternalGrant_any_type(permission) ==
    ~is_allbirds_email(emailAddress(permission))

\* `permission.get('type') == 'user' and not is_allbirds_email(email)`
IsExternalGrant(permission) ==
    permission.type = "user" /\ ~is_allbirds_email(emailAddress(permission))

\* variant: the revoke flag is not looked at
IssuesDelete_in_any_mode(revoke, permission) == IsExternalGrant(permission)

\* whether the loop body of process_file calls permissions().delete()
IssuesDelete(revoke, permission) == IsExternalGrant(permission) /\ revoke

RECURSIVE join(_)
\* ", ".join(emails)
join(emails) ==
    IF Len(emails) = 0 THEN <<>>
    ELSE IF Len(emails) = 1 THEN emails[1]
    ELSE emails[1] \o <<",", " ">> \o join(Tail(emails))

(* ------------------------------ state ---------------------------------- *)
VARIABLES
    revoke_permissions,  \* main's argument
    limit,               \* main's argument
    pc,                  \* the function main's run is executing
    error,               \* the exception being handled or propagated
    attempt,             \* wrapper's loop variable
    sleeps,              \* the backoff sleeps of the current wrapper call
    invocations,         \* the func(...) calls of the current wrapper call
    failures,            \* the statuses its attempts failed with, in order
    all_items,           \* the accumulator of the listing being made
    page_no,             \* the list requests of the current invocation
    served,              \* the pages the service answered it with
    folder_id,           \* the argument of get_folder_contents
    shared_items,        \* main's local
    processed_ids,       \* the set main passes to the traversal
    stack,               \* the frames of process_items_recursively
    children,            \* what get_folder_contents returned, by folder
    descents,            \* the get_folder_contents calls, by folder
    all_files,           \* main's local
    file_idx,            \* position of the list comprehension in all_files
    perm_idx,            \* position of process_file's loop
    external_emails,     \* process_file's local
    permissions_revoked, \* process_file's local
    file_data,           \* the FileReports collected
    delete_calls,        \* the permissions().delete() requests issued
    report,              \* the rows export_to_spreadsheet saved
    outcome,             \* how far main's try statement has come
    root_pages,          \* the answers to the sharedWithMe requests of the call
    email,               \* the argument of is_allbirds_email
    classified           \* what is_allbirds_email and process_file made of it

vars == <<revoke_permissions, limit, pc, error, attempt, sleeps, invocations,
          failures,
          all_items, page_no, served, folder_id, shared_items, processed_ids,
          stack, children, descents, all_files, file_idx, perm_idx,
          external_emails, permissions_revoked, file_data, delete_calls,
          report, outcome, root_pages, email, classified>>

args == <<revoke_permissions, limit>>
classifier == <<email, classified>>
wrapper == <<attempt, sleeps, invocations>>
\* the call raises HttpError with status s
Raise(s) == error' = HttpError(s) /\ failures' = Append(failures, s)
listing == <<all_items, page_no, served, folder_id>>
traversal == <<shared_items, processed_ids, stack, children, descents>>
audit == <<all_files, file_idx, perm_idx, external_emails,
           permissions_revoked, file_data>>

\* the workbook: saved by wb.save(output_file) or not, and its data rows
NotExported == [saved |-> FALSE, rows |-> <<>>]

\* the locals of the run before main's first call
NothingDone ==
    /\ error = NoError
    /\ attempt = 0
    /\ sleeps = <<>>
    /\ invocations = 1
    /\ failures = <<>>
    /\ all_items = <<>>
    /\ page_no = 0
    /\ served = <<>>
    /\ folder_id = 0
    /\ shared_items = <<>>
    /\ processed_ids = {}
    /\ stack = <<>>
    /\ children = [f \in Folders |-> <<>>]
    /\ descents = [f \in Folders |-> 0]
    /\ all_files = <<>>
    /\ file_idx = 0
    /\ perm_idx = 0
    /\ external_emails = <<>>
    /\ permissions_revoked = FALSE
    /\ file_data = <<>>
    /\ delete_calls = <<>>
    /\ report = NotExported
    /\ outcome = "running"
    /\ root_pages = <<>>

\* is_allbirds_email has not been called
NotClassified ==
    [called |-> FALSE, internal |-> FALSE, audited |-> FALSE,
     external |-> FALSE]

Init ==
    /\ revoke_permissions \in BOOLEAN
    /\ limit \in 0..MaxLimit
    /\ pc = "get_shared_files_and_folders"
    /\ NothingDone
    /\ email = <<>>
    /\ classified = NotClassified

(* ----------------------------- actions --------------------------------- *)
\* wrapper(*args) is entered: first attempt, fresh locals of the listing
BeginCall ==
    /\ attempt' = 0
    /\ sleeps' = <<>>
    /\ invocations' = 1
    /\ failures' = <<>>
    /\ all_items' = <<>>
    /\ page_no' = 0
    /\ served' = <<>>

BeginProcessFile ==
    /\ perm_idx' = 1
    /\ external_emails' = <<>>
    /\ permissions_revoked' = FALSE

\* main, line 241: the list comprehension over the files the traversal returned
StartAudit(files) ==
    /\ all_files' = files
    /\ file_idx' = 1
    /\ file_data' = <<>>
    /\ BeginCall
    /\ BeginProcessFile
    /\ pc' = IF Len(files) = 0 THEN "export_to_spreadsheet" ELSE "process_file"

\* main, line 238: process_items_recursively(service, shared_items, set(), limit)
StartTraversal(items) ==
    /\ shared_items' = items
    /\ processed_ids' = {}
    /\ stack' = <<Frame(items)>>
    /\ pc' = "process_items_recursively"

\* one files().list(q="sharedWithMe").execute() of get_shared_files_and_folders
ListShared ==
    /\ outcome = "running"
    /\ pc = "get_shared_files_and_folders"
    /\ error = NoError
    /\ page_no' = page_no + 1
    /\ \/ /\ \E s \in HttpStatuses : Raise(s)
          /\ UNCHANGED <<pc, all_items, served, shared_items, processed_ids,
                         stack, root_pages>>
       \/ \E items \in PageChoices(all_items), token \in BOOLEAN :
            LET acc == extend(all_items, items) IN
            /\ token => MayContinue(page_no + 1, items, acc)
            /\ served' = Append(served, Results(items, token))
            /\ root_pages' = Append(served, Results(items, token))
            /\ all_items' = acc
            /\ UNCHANGED <<error, failures>>
            /\ IF LimitReached(acc, limit)
               THEN StartTraversal(Truncate(acc, limit))
               ELSE IF ~token
                    THEN StartTraversal(acc)
                    ELSE UNCHANGED <<pc, shared_items, processed_ids, stack>>
    /\ UNCHANGED <<args, classifier, wrapper, folder_id, children, descents, audit,
                   delete_calls, report, outcome>>

\* the loop body of process_items_recursively for the next item of the top frame
ProcessItem ==
    /\ outcome = "running"
    /\ pc = "process_items_recursively"
    /\ stack # <<>>
    /\ LET top == stack[Len(stack)] IN
       /\ ~Finished(top)
       /\ LET id == top.items[top.i] IN
          IF AlreadyProcessed(id, processed_ids)
          THEN /\ stack' = [stack EXCEPT ![Len(stack)].i = @ + 1]
               /\ UNCHANGED <<pc, processed_ids, descents, wrapper, failures,
                              listing>>
          ELSE /\ processed_ids' = MarkProcessed(processed_ids, id)
               /\ IF mimeType(id) = FOLDER_MIME
                  THEN /\ pc' = "get_folder_contents"
                       /\ folder_id' = id
                       /\ descents' = [descents EXCEPT ![id] = @ + 1]
                       /\ BeginCall
                       /\ UNCHANGED stack
                  ELSE /\ stack' = [stack EXCEPT ![Len(stack)] =
                                      AfterItem(top, Append(top.all_files, id),
                                                limit)]
                       /\ UNCHANGED <<pc, descents, wrapper, failures,
                                      listing>>
    /\ UNCHANGED <<args, classifier, root_pages, error, shared_items, children, audit, delete_calls,
                   report, outcome>>

\* get_folder_contents returned `contents`: line 149 recurses on them
Recurse(contents) ==
    /\ children' = [children EXCEPT ![folder_id] = contents]
    /\ IF Len(stack) >= RecursionLimit
       THEN /\ error' = RecursionError
            /\ outcome' = "crashed"
            /\ UNCHANGED <<pc, stack>>
       ELSE /\ UNCHANGED error
            /\ stack' = Append(stack, Frame(contents))
            /\ pc' = "process_items_recursively"
            /\ UNCHANGED outcome

\* one files().list(q="'<id>' in parents").execute() of get_folder_contents
ListFolder ==
    /\ outcome = "running"
    /\ pc = "get_folder_contents"
    /\ error = NoError
    /\ page_no' = page_no + 1
    /\ \/ /\ \E s \in HttpStatuses : Raise(s)
          /\ UNCHANGED <<pc, all_items, served, stack, children, outcome>>
       \/ \E items \in PageChoices(all_items), token \in BOOLEAN :
            LET acc == extend(all_items, items) IN
            /\ token => MayContinue(page_no + 1, items, acc)
            /\ served' = Append(served, Results(items, token))
            /\ all_items' = acc
            /\ UNCHANGED failures
            /\ IF ~token
               THEN Recurse(acc)
               ELSE UNCHANGED <<error, pc, stack, children, outcome>>
    /\ UNCHANGED <<args, classifier, root_pages, wrapper, folder_id, shared_items, processed_ids,
                   descents, audit, delete_calls, report>>

\* a frame of process_items_recursively returns its all_files to its caller
ReturnFrame ==
    /\ outcome = "running"
    /\ pc = "process_items_recursively"
    /\ stack # <<>>
    /\ LET top == stack[Len(stack)]
           rest == SubSeq(stack, 1, Len(stack) - 1)
       IN
       /\ Finished(top)
       /\ IF rest = <<>>
          THEN /\ stack' = <<>>
               /\ StartAudit(top.all_files)
          ELSE LET caller == rest[Len(rest)] IN
               /\ stack' = [rest EXCEPT ![Len(rest)] =
                              AfterItem(caller,
                                        extend(caller.all_files, top.all_files),
                                        limit)]
               /\ UNCHANGED <<pc, wrapper, failures, all_items, page_no,
                              served, audit>>
    /\ UNCHANGED <<args, classifier, root_pages, error, folder_id, shared_items, processed_ids,
                   children, descents, delete_calls, report, outcome>>

\* the loop body of process_file for the next permission of the file
CheckPermission ==
    /\ outcome = "running"
    /\ pc = "process_file"
    /\ error = NoError
    /\ LET file == all_files[file_idx]
           perms == permissions(file)
       IN
       /\ perm_idx <= Len(perms)
       /\ LET permission == perms[perm_idx] IN
          /\ external_emails' =
                IF IsExternalGrant(permission)
                THEN Append(external_emails, emailAddress(permission))
                ELSE external_emails
          /\ IF IssuesDelete(revoke_permissions, permission)
             THEN /\ delete_calls' = Append(delete_calls, <<file, permission.id>>)
                  /\ \/ /\ permissions_revoked' = TRUE
                        /\ perm_idx' = perm_idx + 1
                        /\ UNCHANGED <<error, failures>>
                     \/ /\ \E s \in HttpStatuses : Raise(s)
                        /\ UNCHANGED <<permissions_revoked, perm_idx>>
             ELSE /\ perm_idx' = perm_idx + 1
                  /\ UNCHANGED <<delete_calls, permissions_revoked, error,
                                 failures>>
    /\ UNCHANGED <<args, classifier, root_pages, pc, wrapper, listing, traversal, all_files, file_idx,
                   file_data, report, outcome>>

\* variant: revocation is reported whenever an external grant was found
FileReport_revoked_if_found(file, emails, revoked) ==
    [file |-> file, external_emails |-> join(emails),
     permissions_revoked |-> emails # <<>>]

\* the dict process_file returns; `file` stands for its name and link
FileReport(file, emails, revoked) ==
    [file |-> file, external_emails |-> join(emails),
     permissions_revoked |-> revoked]

\* variant: the comprehension stops after any file
LastFile_any(idx, files) == TRUE

\* the list comprehension of line 241 has no further file after number idx
LastFile(idx, files) == idx = Len(files)

\* process_file returns its FileReport; the comprehension moves to the next file
ReturnReport ==
    /\ outcome = "running"
    /\ pc = "process_file"
    /\ error = NoError
    /\ perm_idx > Len(permissions(all_files[file_idx]))
    /\ file_data' = Append(file_data,
                           FileReport(all_files[file_idx], external_emails,
                                      permissions_revoked))
    /\ BeginCall
    /\ BeginProcessFile
    /\ IF LastFile(file_idx, all_files)
       THEN pc' = "export_to_spreadsheet" /\ UNCHANGED file_idx
       ELSE file_idx' = file_idx + 1 /\ UNCHANGED pc
    /\ UNCHANGED <<args, classifier, root_pages, error, folder_id, traversal, all_files, delete_calls,
                   report, outcome>>

\* export_to_spreadsheet(file_data, output_file), then main returns
\* variant: the export sits in a finally clause of main
Export_in_finally ==
    /\ \/ outcome = "running" /\ pc = "export_to_spreadsheet"
       \/ outcome = "error_logged" /\ ~report.saved
    /\ report' = [saved |-> TRUE, rows |-> file_data]
    /\ outcome' = IF outcome = "running" THEN "done" ELSE outcome
    /\ UNCHANGED <<args, classifier, root_pages, pc, error, wrapper, failures, listing, traversal,
                   audit, delete_calls>>

Export ==
    /\ outcome = "running"
    /\ pc = "export_to_spreadsheet"
    /\ report' = [saved |-> TRUE, rows |-> file_data]
    /\ outcome' = "done"
    /\ UNCHANGED <<args, classifier, root_pages, pc, error, wrapper, failures, listing, traversal,
                   audit, delete_calls>>

\* the except clause of wrapper handles the HttpError of the wrapped function;
\* what it raises reaches main: `except HttpError` logs it, anything else is
\* not caught
Except ==
    /\ outcome = "running"
    /\ error.type = "HttpError"
    /\ LET h == exponential_backoff_except(attempt, error.status) IN
       IF h.do = "retry"
       THEN /\ attempt' = attempt + 1
            /\ sleeps' = sleeps \o h.slept
            /\ invocations' = invocations + 1
            /\ error' = NoError
            /\ all_items' = <<>>
            /\ page_no' = 0
            /\ served' = <<>>
            /\ BeginProcessFile
            /\ UNCHANGED outcome
       ELSE /\ error' = h.error
            /\ outcome' = IF h.error.type = "HttpError"
                          THEN "error_logged" ELSE "crashed"
            /\ UNCHANGED <<wrapper, all_items, page_no, served, perm_idx,
                           external_emails, permissions_revoked>>
    /\ UNCHANGED <<args, classifier, root_pages, pc, failures, folder_id, traversal, all_files,
                   file_idx, file_data, delete_calls, report>>

Next ==
    \/ ListShared
    \/ ProcessItem
    \/ ListFolder
    \/ ReturnFrame
    \/ CheckPermission
    \/ ReturnReport
    \/ Export
    \/ Except

Spec == Init /\ [][Next]_vars

(* ------------------- the classifier on its own ------------------------- *)
UpperChar(c) ==
    IF \E i \in 1..26 : LowerChars[i] = c
    THEN UpperChars[CHOOSE i \in 1..26 : LowerChars[i] = c]
    ELSE c

upper(s) == [i \in 1..Len(s) |-> UpperChar(s[i])]

\* every other letter in upper case
mixed(s) == [i \in 1..Len(s) |-> IF i % 2 = 0 THEN UpperChar(s[i]) ELSE s[i]]

\* the part of an address before the "@"
LocalParts == {<<>>, <<"a">>, <<"B", ".", "c">>, <<"@">>}

\* the endings tried: the two suffixes, and strings that miss them by a
\* character, a dot, the "@" or what follows
Endings ==
    LET dom == SUFFIX_DOMAIN
        ext == SUFFIX_EXT_DOMAIN
        base == {<<>>, dom, ext,
                 Tail(dom), Tail(ext),
                 SubSeq(dom, 1, Len(dom) - 1), SubSeq(ext, 1, Len(ext) - 1),
                 dom \o <<".", "i", "o">>, dom \o <<" ">>, ext \o <<"m">>,
                 <<"@", "x">> \o Tail(dom), <<"@", "s", "u", "b", ".">> \o Tail(dom),
                 <<"@", "x", ".", "i", "o">>}
    IN  base \cup {upper(e) : e \in base} \cup {mixed(e) : e \in base}

EmailStrings == {l \o e : l \in LocalParts, e \in Endings}

ClassifierInit ==
    /\ revoke_permissions = FALSE
    /\ limit = 0
    /\ pc = "is_allbirds_email"
    /\ NothingDone
    /\ email \in EmailStrings
    /\ classified = NotClassified

run == <<pc, error, wrapper, failures, listing, traversal, audit,
         delete_calls, report, outcome, root_pages>>

\* is_allbirds_email(email)
CallClassifier ==
    /\ pc = "is_allbirds_email"
    /\ ~classified.called
    /\ classified' = [classified EXCEPT !.called = TRUE,
                                        !.internal = is_allbirds_email(email)]
    /\ UNCHANGED <<args, run, email>>

\* the test of line 177 of process_file for a permission of type 'user'
\* carrying the email (the empty email: no emailAddress key)
AuditUserPermission ==
    /\ pc = "is_allbirds_email"
    /\ classified.called
    /\ ~classified.audited
    /\ classified' = [classified EXCEPT
                        !.audited = TRUE,
                        !.external = IsExternalGrant(Perm(1, "user", email))]
    /\ UNCHANGED <<args, run, email>>

ClassifierNext == CallClassifier \/ AuditUserPermission

ClassifierSpec == ClassifierInit /\ [][ClassifierNext]_vars

\* main up to the return of process_items_recursively (lines 237-238)
TraversalNext ==
    \/ ListShared
    \/ ProcessItem
    \/ ListFolder
    \/ ReturnFrame
    \/ Except

\* the run is one sequential thread: a step that can be taken is taken
TraversalSpec == Init /\ [][TraversalNext]_vars /\ WF_vars(TraversalNext)

(* ------------------------------ claims --------------------------------- *)
\* process_items_recursively has returned to main
TraversalReturned == pc \in {"process_file", "export_to_spreadsheet"}

\* main's try statement has been left
RunEnded == outcome \in {"done", "error_logged", "crashed"}

\* the number of delete requests issued for permission `pid` of `file`
DeleteCount(file, pid) ==
    Cardinality({k \in 1..Len(delete_calls) : delete_calls[k] = <<file, pid>>})

\* an external grant, as the specification defines it
ExternalGrant(p) ==
    /\ p.type = "user"
    /\ ~endswith(lower(p.emailAddress), SUFFIX_DOMAIN)
    /\ ~endswith(lower(p.emailAddress), SUFFIX_EXT_DOMAIN)

NoDuplicates(s) == \A a, b \in 1..Len(s) : a # b => s[a] # s[b]

\* C1: in dry-run mode no delete-permission call is ever issued
C1_DryRunIssuesNoDelete ==
    ~revoke_permissions => delete_calls = <<>>

\* a dry run that ended after auditing two files with external grants
C1_Witness ==
    /\ ~revoke_permissions
    /\ outcome = "done"
    /\ Cardinality({k \in 1..Len(report.rows) :
                      report.rows[k].external_emails # <<>>}) >= 2

\* C2: in active mode every processed file has had exactly one delete call
\* for each of its external grants, and no delete call is ever issued for a
\* permission that is not an external grant
C2_OneDeletePerExternalGrant ==
    revoke_permissions =>
        /\ \A k \in 1..Len(file_data) :
             LET file == file_data[k].file IN
             \A n \in 1..Len(permissions(file)) :
                LET p == permissions(file)[n] IN
                DeleteCount(file, p.id) = IF ExternalGrant(p) THEN 1 ELSE 0
        /\ \A k \in 1..Len(delete_calls) :
             LET file == delete_calls[k][1] IN
             /\ DeleteCount(file, delete_calls[k][2]) = 1
             /\ \E n \in 1..Len(permissions(file)) :
                  /\ permissions(file)[n].id = delete_calls[k][2]
                  /\ ExternalGrant(permissions(file)[n])

\* an active run that ended after auditing files with three external grants
\* and with permissions of other kinds
C2_Witness ==
    /\ revoke_permissions
    /\ outcome = "done"
    /\ Len(delete_calls) = 3
    /\ Len(report.rows) >= 2

C4_ExpandedAtMostOnce ==
    /\ \A f \in Folders : descents[f] <= 1
    /\ \A k \in 1..Len(stack) : NoDuplicates(stack[k].all_files)
    /\ NoDuplicates(all_files)

\* the traversal has returned where folder 2 is a root and a child of folder
\* 1, and a file is listed by both folders
C4_Witness ==
    /\ TraversalReturned
    /\ {1, 2} \subseteq Range(shared_items)
    /\ 2 \in Range(children[1])
    /\ \E f \in Files : f \in Range(children[1]) /\ f \in Range(children[2])
    /\ Len(all_files) = 1

\* C5: with a limit N >= 1 the traversal returns at most N files
C5_AtMostLimitFiles ==
    (limit >= 1 /\ TraversalReturned) => Len(all_files) <= limit

\* the traversal has returned 2 files under limit 2 where 3 files were found:
\* one among the roots and two more in a folder
C5_Witness ==
    /\ TraversalReturned
    /\ limit = 2
    /\ Len(all_files) = 2
    /\ \E f \in Folders :
         /\ shared_items[1] \in Files
         /\ shared_items[2] = f
         /\ Range(children[f]) \subseteq Files \ {shared_items[1]}
         /\ Len(children[f]) = 2

RECURSIVE FilesHeld(_)
\* the files accumulated so far in the run: those of every frame's all_files
FilesHeld(frames) ==
    IF frames = <<>> THEN 0
    ELSE Len(frames[1].all_files) + FilesHeld(Tail(frames))

\* C6: with a limit N no get_folder_contents call is issued once N files have
\* been accumulated across the whole run
C6_NoDescentAtLimit ==
    [][(limit # 0 /\ FilesHeld(stack) >= limit) => descents' = descents]_vars

\* the sleeps the wrapper is to make for k transient failures in a row
BackoffSleeps(k) ==
    [i \in 1..k |-> IF BASE_DELAY * Pow2(i - 1) <= MAX_DELAY
                    THEN BASE_DELAY * Pow2(i - 1) ELSE MAX_DELAY]

AllTransient(statuses) ==
    \A k \in 1..Len(statuses) : statuses[k] \in {429, 500, 503}

\* the except clause has dealt with every failure of the current call
Handled == error.type # "HttpError" \/ RunEnded

\* C7: after k < MAX_RETRIES transient failures in a row the wrapper has slept
\* min(BASE_DELAY * 2^i, MAX_DELAY) for i = 0..k-1, has raised nothing and is
\* running the operation again
C7_BackoffThenRetry ==
    (Handled /\ failures # <<>> /\ AllTransient(failures)
       /\ Len(failures) < MAX_RETRIES) =>
        /\ outcome = "running"
        /\ error = NoError
        /\ sleeps = BackoffSleeps(Len(failures))
        /\ invocations = Len(failures) + 1

\* C8: a non-transient failure is propagated at once: the error main gets is
\* that HttpError, and no sleep and no invocation follow the failure
C8_NonTransientPropagates ==
    (failures # <<>> /\ failures[Len(failures)] \notin {429, 500, 503}) =>
        /\ invocations = Len(failures)
        /\ Len(sleeps) = Len(failures) - 1
        /\ Handled => /\ outcome = "error_logged"
                      /\ error = HttpError(failures[Len(failures)])

\* a delete-permission call that failed with 404 has ended the run
C8_Witness ==
    /\ outcome = "error_logged"
    /\ pc = "process_file"
    /\ failures = <<404>>
    /\ Len(delete_calls) = 2

\* C9: the operation is invoked at most MAX_RETRIES times per call, and a
\* call whose attempts all fail transiently raises the HttpError of its last
\* attempt, after MAX_RETRIES attempts and no sleep after the last
C9_ExhaustedReraises ==
    /\ invocations <= MAX_RETRIES
    /\ (RunEnded /\ failures # <<>> /\ AllTransient(failures)) =>
          /\ error = HttpError(failures[Len(failures)])
          /\ Len(failures) = MAX_RETRIES
          /\ Len(sleeps) = MAX_RETRIES - 1

\* C10: a failed delete-permission call aborts neither the audit of the file
\* nor that of the later files: when the run ends after the traversal
\* returned, there is a FileReport for every file
C10_AuditContinuesAfterFailure ==
    (RunEnded /\ TraversalReturned) => Len(file_data) = Len(all_files)

\* the delete requests issued more than once
RepeatedDeletes ==
    {delete_calls[k] : k \in {n \in 1..Len(delete_calls) :
                                DeleteCount(delete_calls[n][1],
                                            delete_calls[n][2]) > 1}}

\* C11: after a delete-permission call failed transiently (fewer than
\* MAX_RETRIES times) the run goes on to re-attempt that deletion, and it is
\* the only deletion issued more than once
C11_OnlyFailedDeleteRetried ==
    (pc = "process_file" /\ Handled /\ failures # <<>>
       /\ AllTransient(failures) /\ Len(failures) < MAX_RETRIES) =>
        /\ outcome = "running"
        /\ Cardinality(RepeatedDeletes) <= 1

RECURSIVE PagesInOrder(_)
\* the items of the pages, page after page
PagesInOrder(pages) ==
    IF pages = <<>> THEN <<>>
    ELSE pages[1].files \o PagesInOrder(Tail(pages))

\* get_folder_contents has returned and its contents are being processed
FolderListed ==
    pc = "process_items_recursively" /\ folder_id # 0 /\ served # <<>>

\* C12: get_folder_contents follows every continuation token and returns the
\* items of all the pages it was answered with, in page order
C12_FolderContentsAreAllPages ==
    /\ (pc = "get_folder_contents" /\ error = NoError) =>
          /\ all_items = PagesInOrder(served)
          /\ \A k \in 1..Len(served) : served[k].nextPageToken
    /\ FolderListed =>
          /\ children[folder_id] = PagesInOrder(served)
          /\ \A k \in 1..Len(served) :
                served[k].nextPageToken <=> k < Len(served)

\* a folder listing of two pages, one item each, has been returned
C12_Witness ==
    /\ FolderListed
    /\ Len(served) = 2
    /\ Len(children[folder_id]) = 2
    /\ Len(served[1].files) = 1

\* the emails of the external grants of a file, in permission order
ExternalEmailsOf(file) ==
    LET grants == SelectSeq(permissions(file), ExternalGrant)
    IN  [n \in 1..Len(grants) |-> grants[n].emailAddress]

RECURSIVE CommaJoined(_)
\* the emails separated by a comma and a space
CommaJoined(emails) ==
    IF emails = <<>> THEN <<>>
    ELSE IF Len(emails) = 1 THEN emails[1]
    ELSE CommaJoined(SubSeq(emails, 1, Len(emails) - 1))
           \o <<",", " ">> \o emails[Len(emails)]

\* C13: process_file yields one FileReport for each file it returns from, in
\* order; its external_emails is the comma-joined emails of the file's
\* external grants in permission order, and its permissions_revoked is true
\* iff revocation is enabled and the file has an external grant
C13_OneFileReportPerFile ==
    /\ pc = "process_file" => Len(file_data) = file_idx - 1
    /\ pc = "export_to_spreadsheet" => Len(file_data) = Len(all_files)
    /\ \A k \in 1..Len(file_data) :
         LET file == all_files[k] IN
         /\ file_data[k].file = file
         /\ file_data[k].external_emails = CommaJoined(ExternalEmailsOf(file))
         /\ file_data[k].permissions_revoked =
               (revoke_permissions /\ ExternalEmailsOf(file) # <<>>)

\* three files were audited: one with one external grant, one with two and
\* one with no permissions at all
C13_Witness ==
    /\ pc = "export_to_spreadsheet"
    /\ Len(file_data) = 3
    /\ \E k \in 1..3 : file_data[k].external_emails = <<>>
    /\ \E k \in 1..3 : file_data[k].external_emails = EMAIL_A
    /\ \E k \in 1..3 : file_data[k].external_emails = EMAIL_D \o <<",", " ">>

\* the place of a file in the sequence the traversal returned
PositionOf(file) == CHOOSE k \in 1..Len(all_files) : all_files[k] = file

\* C14: the run goes through its phases in order: no list request is issued
\* once a delete-permission call was made, the files are audited in the
\* order the traversal returned them, and the report is saved only when
\* every file has its FileReport
C14_PhasesInOrder ==
    /\ [](/\ delete_calls # <<>> => TraversalReturned
          /\ \A k \in 1..Len(file_data) : file_data[k].file = all_files[k]
          /\ \A a, b \in 1..Len(delete_calls) :
                a < b => PositionOf(delete_calls[a][1])
                           <= PositionOf(delete_calls[b][1])
          /\ report.saved => /\ report.rows = file_data
                             /\ Len(file_data) = Len(all_files))
    /\ [][delete_calls # <<>> => page_no' # page_no + 1]_vars

\* a run that listed a folder, revoked grants of two files and saved the report
C14_Witness ==
    /\ report.saved
    /\ \E f \in Folders : descents[f] = 1
    /\ \E a, b \in 1..Len(delete_calls) : delete_calls[a][1] # delete_calls[b][1]

\* the configured suffixes
CONFIGURED_SUFFIXES ==
    { <<"@","d","o","m","a","i","n",".","c","o","m">>,
      <<"@","e","x","t",".","d","o","m","a","i","n",".","c","o","m">> }

\* character c, lowercased, is the lowercase character d
LowercasesTo(c, d) ==
    \/ c = d /\ \A i \in 1..26 : UpperChars[i] # c
    \/ \E i \in 1..26 : c = UpperChars[i] /\ d = LowerChars[i]

\* the lowercased string ends with the suffix
EndsWithIgnoringCase(s, suffix) ==
    /\ Len(s) >= Len(suffix)
    /\ \A i \in 1..Len(suffix) :
         LowercasesTo(s[Len(s) - Len(suffix) + i], suffix[i])

\* C15: the classifier returns true iff the lowercased email ends with a
\* configured suffix; the empty email gives false, and a permission of type
\* 'user' with it is an external grant
C15_ClassifierIsSuffixMatch ==
    /\ classified.called =>
         /\ classified.internal <=>
               \E suffix \in CONFIGURED_SUFFIXES :
                  EndsWithIgnoringCase(email, suffix)
         /\ email = <<>> => ~classified.internal
    /\ classified.audited =>
         /\ classified.external <=> ~classified.internal
         /\ email = <<>> => classified.external

\* the empty email was classified and audited
C15_Witness ==
    /\ classified.audited
    /\ email = <<>>
    /\ classified.external
    /\ ~classified.internal

\* C16: an HttpError that reaches main ends the run with the error logged
\* and nothing exported; a report is written only after every file was
\* audited, and holds every file's row
C16_NoReportAfterHttpError ==
    /\ [](/\ (error.type = "HttpError" /\ RunEnded) =>
                /\ outcome = "error_logged"
                /\ report = NotExported
          /\ outcome = "error_logged" => error.type = "HttpError"
          /\ report.saved =>
                /\ outcome = "done"
                /\ error = NoError
                /\ TraversalReturned
                /\ Len(report.rows) = Len(all_files)
                /\ \A k \in 1..Len(all_files) :
                      report.rows[k].file = all_files[k])
    /\ [][outcome # "error_logged"]_vars

\* the audit of a later file failed after an earlier file's grants were
\* revoked and its row was built: the error is logged, nothing is exported
C16_Witness ==
    /\ outcome = "error_logged"
    /\ pc = "process_file"
    /\ file_data # <<>>
    /\ delete_calls # <<>>
    /\ report = NotExported

\* a listing call has failed on a page after the first with a transient
\* status, and the wrapper has retries left
LaterPageTransientFailure ==
    /\ pc \in {"get_shared_files_and_folders", "get_folder_contents"}
    /\ error.type = "HttpError"
    /\ IsTransient(error.status)
    /\ served # <<>>
    /\ attempt < MAX_RETRIES

\* C17: after a transient failure on a later page the wrapper runs the listing
\* function again, from the first page and with an empty accumulator, so that
\* what is accumulated is always the pages of the current invocation, each once
C17_RetryRestartsPagination ==
    /\ [][LaterPageTransientFailure =>
            /\ outcome' = "running"
            /\ error' = NoError
            /\ invocations' = invocations + 1
            /\ page_no' = 0
            /\ all_items' = <<>>]_vars
    /\ []((pc \in {"get_shared_files_and_folders", "get_folder_contents"}
             /\ error = NoError) => all_items = PagesInOrder(served))

\* get_shared_files_and_folders has returned
RootsListed ==
    pc \in {"process_items_recursively", "get_folder_contents",
            "process_file", "export_to_spreadsheet"}

\* the root items the service listed, in the order listed
RootItems == PagesInOrder(root_pages)

\* C18: with a limit N >= 1 the root listing returns the first N root items at
\* most, folders counted, and asks for no further page once N are accumulated;
\* the traversal reaches an item only as one of these or as a child of a folder
\* it has listed
C18_RootListingStopsAtLimit ==
    (limit >= 1 /\ RootsListed) =>
        /\ Len(shared_items) <= limit
        /\ Len(shared_items) = limit \/ shared_items = RootItems
        /\ \A k \in 1..Len(shared_items) : shared_items[k] = RootItems[k]
        /\ \A k \in 1..(Len(root_pages) - 1) :
              /\ root_pages[k].nextPageToken
              /\ Len(PagesInOrder(SubSeq(root_pages, 1, k))) < limit
        /\ Len(RootItems) < limit =>
              ~root_pages[Len(root_pages)].nextPageToken
        /\ \A id \in processed_ids \cup Range(all_files) :
              \/ id \in Range(shared_items)
              \/ \E f \in Folders \cap processed_ids : id \in Range(children[f])

\* under limit 1 the service listed an empty folder and then a file: the file
\* is not traversed and the traversal returns no file
C18_Witness ==
    /\ limit = 1
    /\ TraversalReturned
    /\ Len(RootItems) = 2
    /\ RootItems[1] \in Folders
    /\ RootItems[2] \in Files
    /\ shared_items = <<RootItems[1]>>
    /\ RootItems[2] \notin processed_ids
    /\ all_files = <<>>

RECURSIVE Reachable(_)
\* the items reachable from `ids` through the listed folders' contents
Reachable(ids) ==
    LET more == ids \cup UNION {Range(children[f]) : f \in ids \cap Folders}
    IN  IF more = ids THEN ids ELSE Reachable(more)

\* C19: a limit of 0 is no limit: the root listing follows every continuation
\* token and returns all the root items, and the traversal lists every
\* reachable folder and returns every reachable file, once
C19_ZeroIsNoLimit ==
    /\ (limit = 0 /\ RootsListed) =>
          /\ shared_items = RootItems
          /\ \A k \in 1..Len(root_pages) :
                root_pages[k].nextPageToken <=> k < Len(root_pages)
    /\ (limit = 0 /\ TraversalReturned) =>
          /\ \A f \in Reachable(Range(shared_items)) \cap Folders :
                descents[f] = 1
          /\ Range(all_files) = Reachable(Range(shared_items)) \cap Files
          /\ Len(all_files) = Cardinality(Range(all_files))

\* under limit 0 the roots came in two pages, and the traversal has returned
\* all three files, two of them found in a folder
C19_Witness ==
    /\ limit = 0
    /\ TraversalReturned
    /\ Len(root_pages) = 2
    /\ Len(all_files) = 3
    /\ \E f \in Folders : descents[f] = 1 /\ Len(children[f]) = 2

====
